---------------------------- MODULE Spec2Model ----------------------------
(***************************************************************************)
(* A model of the free-look camera (src/src/camera.hpp) and of the demo    *)
(* program that drives it (src/src/main.cpp).                              *)
(*                                                                         *)
(* Every scalar of the camera is a C++ `float`.  The model keeps that: a   *)
(* number is a floating-point value with a four-digit decimal significand  *)
(* and an unbounded exponent, every arithmetic operation rounds its exact  *)
(* result to the nearest such value, and NaN propagates.  The precision is *)
(* lower than binary32's 24 bits, the behaviour is the same in kind:       *)
(* sums round, small addends are absorbed by large ones, cos(radians(90))  *)
(* is a tiny non-zero number, 0 * (1 / sqrt(0)) is NaN.                    *)
(***************************************************************************)
EXTENDS Integers, Sequences, FiniteSets, TLC

VARIABLES
    cam,                  \* the Camera object (window_data.camera in the demo)
    call,                 \* history: the last camera call and its arguments
    pre,                  \* history: the Camera as it was before that call
    ncalls,               \* history: how many camera calls have been made
    cursor,               \* history: the position the last cursor event reported
    pc,                   \* where main() is
    on_exit,              \* main's scope_exit object is alive
    error_callback,       \* error_handler is installed as GLFW's error callback
    glfwTerminate_calls,  \* how many times glfwTerminate() has been called
    should_close,         \* the window's close flag
    window_data,          \* main's window_data, without its camera
    frames,               \* iterations of the render loop completed
    events                \* window events delivered so far

camvars  == <<cam, call, pre, ncalls, cursor>>
mainvars == <<pc, on_exit, error_callback, glfwTerminate_calls, should_close,
              window_data, frames, events>>
vars     == <<camvars, mainvars>>

---------------------------------------------------------------------------
(* float *)

\* significands of a non-zero float lie in MantLo .. MantHi - 1
MantLo == 1000
MantHi == 10000

Fl(m, e) == [nan |-> FALSE, m |-> m, e |-> e]      \* the float m * 10^e
NaN      == [nan |-> TRUE,  m |-> 0, e |-> 0]
Zero     == Fl(0, 0)

Abs(n) == IF n < 0 THEN -n ELSE n
Sgn(n) == IF n < 0 THEN -1 ELSE 1

RECURSIVE Pow10(_)
Pow10(k) == IF k <= 0 THEN 1 ELSE 10 * Pow10(k - 1)

\* how many trailing digits a >= 0 has too many / too few for a significand
RECURSIVE Excess(_)
Excess(a) == IF a < MantHi THEN 0 ELSE 1 + Excess(a \div 10)

RECURSIVE Short(_)
Short(a) == IF a >= MantLo THEN 0 ELSE 1 + Short(a * 10)

\* n / d for n >= 0, d > 0, rounded to nearest, ties to even
RoundDiv(n, d) ==
    LET q == n \div d
        r == n % d
    IN  IF 2 * r > d \/ (2 * r = d /\ q % 2 = 1) THEN q + 1 ELSE q

\* the float nearest to the exact value n * 10^e
Round(n, e) ==
    IF n = 0 THEN Zero
    ELSE LET a == Abs(n)
             s == Sgn(n)
         IN  IF a >= MantHi
             THEN LET k == Excess(a)
                      q == RoundDiv(a, Pow10(k))
                  IN  IF q = MantHi THEN Fl(s * MantLo, e + k + 1)
                                    ELSE Fl(s * q, e + k)
             ELSE LET k == Short(a)
                  IN  Fl(s * a * Pow10(k), e - k)

fneg(x) == IF x.nan THEN NaN ELSE Fl(-x.m, x.e)

fabs(x) == IF x.nan THEN NaN ELSE Fl(Abs(x.m), x.e)

\* x + y.  An addend more than five decimal orders below the other cannot
\* change the rounded sum.
fadd(x, y) ==
    IF x.nan \/ y.nan THEN NaN
    ELSE IF x.m = 0 THEN y
    ELSE IF y.m = 0 THEN x
    ELSE LET hi == IF x.e >= y.e THEN x ELSE y
             lo == IF x.e >= y.e THEN y ELSE x
             d  == hi.e - lo.e
         IN  IF d > 5 THEN hi
             ELSE Round(hi.m * Pow10(d) + lo.m, lo.e)

fsub(x, y) == fadd(x, fneg(y))

fmul(x, y) ==
    IF x.nan \/ y.nan THEN NaN
    ELSE Round(x.m * y.m, x.e + y.e)

\* x < y (false when either is NaN, as in C++)
Lt(x, y) == ~x.nan /\ ~y.nan /\ fsub(x, y).m < 0

Le(x, y) == ~x.nan /\ ~y.nan /\ fsub(x, y).m <= 0

\* floor of the square root of 0 <= n < 10^9
RECURSIVE IsqrtIn(_, _, _)
IsqrtIn(n, lo, hi) ==
    IF hi - lo <= 1 THEN lo
    ELSE LET mid == (lo + hi) \div 2
         IN  IF mid * mid <= n THEN IsqrtIn(n, mid, hi)
                               ELSE IsqrtIn(n, lo, mid)

Isqrt(n) == IsqrtIn(n, 0, 31623)

\* std::sqrt of x >= 0
fsqrt(x) ==
    IF x.nan \/ x.m < 0 THEN NaN
    ELSE IF x.m = 0 THEN Zero
    ELSE LET odd == x.e % 2 = 1
             m2  == IF odd THEN x.m * 10 ELSE x.m
             e2  == IF odd THEN x.e - 1 ELSE x.e
         IN  Round(Isqrt(m2 * 10000), (e2 \div 2) - 2)

\* 1 / x for x > 0
finv(x) ==
    IF x.nan \/ x.m <= 0 THEN NaN
    ELSE Round(RoundDiv(100000000, x.m), -8 - x.e)

\* std::clamp(v, lo, hi): (v < lo) ? lo : (hi < v) ? hi : v
clamp(v, lo, hi) == IF Lt(v, lo) THEN lo ELSE IF Lt(hi, v) THEN hi ELSE v

\* the integer a float holds, for a float that holds one
Deg(x) == IF x.e >= 0 THEN x.m * Pow10(x.e) ELSE x.m \div Pow10(-x.e)

IsInt(x) == ~x.nan /\ (x.e >= 0 \/ x.m % Pow10(-x.e) = 0)

\* A C++ `double`: the exact decimal n * 10^e, with more digits than a float
\* holds.
Dbl(n, e) == [n |-> n, e |-> e]

\* before any cursor event: the position main stores initially, (400, 300)
NoCursorEvent == [x |-> Dbl(400, 0), y |-> Dbl(300, 0)]

\* static_cast<float>(d): the float nearest to the double
to_float(d) == Round(d.n, d.e)

---------------------------------------------------------------------------
(* glm::vec3 *)

vec3(x, y, z) == [x |-> x, y |-> y, z |-> z]

vadd(a, b) == vec3(fadd(a.x, b.x), fadd(a.y, b.y), fadd(a.z, b.z))

vsub(a, b) == vec3(fsub(a.x, b.x), fsub(a.y, b.y), fsub(a.z, b.z))

vscale(a, s) == vec3(fmul(a.x, s), fmul(a.y, s), fmul(a.z, s))

dot(a, b) == fadd(fadd(fmul(a.x, b.x), fmul(a.y, b.y)), fmul(a.z, b.z))

cross(a, b) ==
    vec3(fsub(fmul(a.y, b.z), fmul(b.y, a.z)),
         fsub(fmul(a.z, b.x), fmul(b.z, a.x)),
         fsub(fmul(a.x, b.y), fmul(b.x, a.y)))

\* glm::normalize(v) = v * inversesqrt(dot(v, v)), inversesqrt(d) = 1 / sqrt(d).
\* For the zero vector 1 / sqrt(0) is +infinity and 0 * infinity is NaN.
normalize(v) ==
    LET d == dot(v, v)
    IN  IF ~d.nan /\ d.m = 0 THEN vec3(NaN, NaN, NaN)
        ELSE vscale(v, finv(fsqrt(d)))

---------------------------------------------------------------------------
(* std::cos(glm::radians(d)) and std::sin(glm::radians(d)) *)

\* The binary32 results for the whole-degree angles of the model, to four
\* significant digits.  No float is an exact multiple of pi / 2, so the
\* cosine of radians(90 + 180 k) is small and not zero.
CosTable ==
       -361 :> Fl(9998, -4)  @@ -360 :> Fl(1000, -3)   @@ -359 :> Fl(9998, -4)
    @@ -271 :> Fl(1745, -5)  @@ -270 :> Fl(1192, -11)  @@ -269 :> Fl(-1745, -5)
    @@ -181 :> Fl(-9998, -4) @@ -180 :> Fl(-1000, -3)  @@ -179 :> Fl(-9998, -4)
    @@ -91 :> Fl(-1745, -5)  @@ -90 :> Fl(-4371, -11)  @@ -89 :> Fl(1745, -5)
    @@ -1 :> Fl(9998, -4)    @@ 0 :> Fl(1000, -3)      @@ 1 :> Fl(9998, -4)
    @@ 89 :> Fl(1745, -5)    @@ 90 :> Fl(-4371, -11)   @@ 91 :> Fl(-1745, -5)
    @@ 179 :> Fl(-9998, -4)  @@ 180 :> Fl(-1000, -3)   @@ 181 :> Fl(-9998, -4)
    @@ 269 :> Fl(-1745, -5)  @@ 270 :> Fl(1192, -11)   @@ 271 :> Fl(1745, -5)
    @@ 359 :> Fl(9998, -4)   @@ 360 :> Fl(1000, -3)    @@ 361 :> Fl(9998, -4)

SinTable ==
       -361 :> Fl(-1745, -5) @@ -360 :> Fl(-1748, -10) @@ -359 :> Fl(1745, -5)
    @@ -271 :> Fl(9998, -4)  @@ -270 :> Fl(1000, -3)   @@ -269 :> Fl(9998, -4)
    @@ -181 :> Fl(1745, -5)  @@ -180 :> Fl(8742, -11)  @@ -179 :> Fl(-1745, -5)
    @@ -91 :> Fl(-9998, -4)  @@ -90 :> Fl(-1000, -3)   @@ -89 :> Fl(-9998, -4)
    @@ -1 :> Fl(-1745, -5)   @@ 0 :> Fl(0, 0)          @@ 1 :> Fl(1745, -5)
    @@ 89 :> Fl(9998, -4)    @@ 90 :> Fl(1000, -3)     @@ 91 :> Fl(9998, -4)
    @@ 179 :> Fl(1745, -5)   @@ 180 :> Fl(-8742, -11)  @@ 181 :> Fl(-1745, -5)
    @@ 269 :> Fl(-9998, -4)  @@ 270 :> Fl(-1000, -3)   @@ 271 :> Fl(-9998, -4)
    @@ 359 :> Fl(-1745, -5)  @@ 360 :> Fl(1748, -10)   @@ 361 :> Fl(1745, -5)

cos_radians(a) == IF a.nan THEN NaN ELSE CosTable[Deg(a)]

sin_radians(a) == IF a.nan THEN NaN ELSE SinTable[Deg(a)]

---------------------------------------------------------------------------
(* camera.hpp *)

One == Fl(1000, -3)

YAW         == Fl(-9000, -2)      \* -90.0f
PITCH       == Zero               \* 0.0f
SPEED       == Fl(2500, -3)       \* 2.5f
SENSITIVITY == Fl(1000, -4)       \* 0.1f
FOV         == Fl(4500, -2)       \* 45.0f

Directions == {"forward", "backward", "left", "right"}

\* update_camera_vectors with right_ left as the bare cross product
update_camera_vectors_raw_right(c) ==
    LET forward == normalize(vec3(
            fmul(cos_radians(c.yaw), cos_radians(c.pitch)),
            sin_radians(c.pitch),
            fmul(sin_radians(c.yaw), cos_radians(c.pitch))))
    IN  [c EXCEPT !.forward = forward,
                  !.right = cross(forward, c.world_up)]

\* forward_ and right_ from yaw_, pitch_ and world_up_
update_camera_vectors(c) ==
    LET forward == normalize(vec3(
            fmul(cos_radians(c.yaw), cos_radians(c.pitch)),
            sin_radians(c.pitch),
            fmul(sin_radians(c.yaw), cos_radians(c.pitch))))
    IN  [c EXCEPT !.forward = forward,
                  !.right = normalize(cross(forward, c.world_up))]

\* The constructor.  right_ has no initializer; update_camera_vectors
\* assigns it before anything reads it.
Camera(position, yaw, pitch) ==
    update_camera_vectors(
        [position          |-> position,
         forward           |-> vec3(Zero, Zero, fneg(One)),
         up                |-> vec3(Zero, One, Zero),
         world_up          |-> vec3(Zero, One, Zero),
         right             |-> vec3(Zero, Zero, Zero),
         yaw               |-> yaw,
         pitch             |-> pitch,
         movement_speed    |-> SPEED,
         mouse_sensitivity |-> SENSITIVITY,
         fov               |-> FOV])

\* glm::lookAt(position_, position_ + forward_, up_), as its arguments
view(c) == [eye |-> c.position, center |-> vadd(c.position, c.forward), up |-> c.up]

fov(c) == c.fov

\* handle_keyboard with the signs of left and right exchanged
handle_keyboard_swapped_sides(c, direction, delta_time) ==
    LET velocity == fmul(c.movement_speed, delta_time)
    IN  CASE direction = "forward" ->
               [c EXCEPT !.position = vadd(@, vscale(c.forward, velocity))]
          [] direction = "backward" ->
               [c EXCEPT !.position = vsub(@, vscale(c.forward, velocity))]
          [] direction = "left" ->
               [c EXCEPT !.position = vadd(@, vscale(c.right, velocity))]
          [] direction = "right" ->
               [c EXCEPT !.position = vsub(@, vscale(c.right, velocity))]

\* handle_keyboard whose backward case moves along right_
handle_keyboard_backward_along_right(c, direction, delta_time) ==
    LET velocity == fmul(c.movement_speed, delta_time)
    IN  CASE direction = "forward" ->
               [c EXCEPT !.position = vadd(@, vscale(c.forward, velocity))]
          [] direction = "backward" ->
               [c EXCEPT !.position = vsub(@, vscale(c.right, velocity))]
          [] direction = "left" ->
               [c EXCEPT !.position = vsub(@, vscale(c.right, velocity))]
          [] direction = "right" ->
               [c EXCEPT !.position = vadd(@, vscale(c.right, velocity))]

handle_keyboard(c, direction, delta_time) ==
    LET velocity == fmul(c.movement_speed, delta_time)
    IN  CASE direction = "forward" ->
               [c EXCEPT !.position = vadd(@, vscale(c.forward, velocity))]
          [] direction = "backward" ->
               [c EXCEPT !.position = vsub(@, vscale(c.forward, velocity))]
          [] direction = "left" ->
               [c EXCEPT !.position = vsub(@, vscale(c.right, velocity))]
          [] direction = "right" ->
               [c EXCEPT !.position = vadd(@, vscale(c.right, velocity))]

\* mouse_yaw with `yaw_ -= xoffset`
mouse_yaw_subtracting(c, xoffset) == fsub(c.yaw, fmul(xoffset, c.mouse_sensitivity))

\* yaw_ after `xoffset *= mouse_sensitivity_; yaw_ += xoffset`
mouse_yaw(c, xoffset) == fadd(c.yaw, fmul(xoffset, c.mouse_sensitivity))

\* mouse_pitch that clamps pitch_ before the offset is subtracted
mouse_pitch_clamp_first(c, yoffset, constrain_pitch) ==
    LET pitch == IF constrain_pitch
                 THEN clamp(c.pitch, Fl(-8900, -2), Fl(8900, -2))
                 ELSE c.pitch
    IN  fsub(pitch, fmul(yoffset, c.mouse_sensitivity))

\* pitch_ after `yoffset *= mouse_sensitivity_; pitch_ -= yoffset` and the clamp
mouse_pitch(c, yoffset, constrain_pitch) ==
    LET pitch == fsub(c.pitch, fmul(yoffset, c.mouse_sensitivity))
    IN  IF constrain_pitch
        THEN clamp(pitch, Fl(-8900, -2), Fl(8900, -2))
        ELSE pitch

\* handle_mouse without the closing update_camera_vectors()
handle_mouse_no_update(c, xoffset, yoffset, constrain_pitch) ==
    [c EXCEPT !.yaw = mouse_yaw(c, xoffset),
              !.pitch = mouse_pitch(c, yoffset, constrain_pitch)]

\* handle_mouse that also scales the member: `mouse_sensitivity_ *= xoffset`
handle_mouse_scaling_member(c, xoffset, yoffset, constrain_pitch) ==
    update_camera_vectors(
        [c EXCEPT !.yaw = mouse_yaw(c, xoffset),
                  !.pitch = mouse_pitch(c, yoffset, constrain_pitch),
                  !.mouse_sensitivity = fmul(@, xoffset)])

handle_mouse(c, xoffset, yoffset, constrain_pitch) ==
    update_camera_vectors(
        [c EXCEPT !.yaw = mouse_yaw(c, xoffset),
                  !.pitch = mouse_pitch(c, yoffset, constrain_pitch)])

\* handle_scroll that clamps the field of view instead of the offset
handle_scroll_clamp_fov(c, yoffset) ==
    [c EXCEPT !.fov = clamp(fsub(@, yoffset), One, Fl(4500, -2))]

handle_scroll(c, yoffset) ==
    [c EXCEPT !.fov = fsub(@, clamp(yoffset, One, Fl(4500, -2)))]

---------------------------------------------------------------------------
(* The camera driven through its public interface: a camera is built with *)
(* any constructor arguments and then receives any calls in any order.    *)

\* bounds of the model
MaxCalls   == 2          \* camera calls per behaviour
MaxQuarter == 2          \* |yaw|, |pitch| stay within 90 * MaxQuarter + 1 degrees

\* constructor arguments
CtorPositions == {vec3(Zero, Zero, Fl(3000, -3))}
CtorYaws      == {YAW, Fl(-8900, -2)}
CtorPitches   == {PITCH, Fl(9000, -2), Fl(-9100, -2)}

\* delta_time: 0, a 60 Hz frame, a negative frame, 1e8 s
DeltaTimes == {Zero, Fl(1600, -5), Fl(-1600, -5), Fl(1000, 5)}

\* (xoffset, yoffset) of handle_mouse: with the sensitivity 0.1 these turn by
\* 1, 90 and 2000 degrees
MouseOffsets ==
    {<<Fl(1000, -2), Zero>>, <<Zero, Fl(-1000, -2)>>, <<Zero, Fl(1000, -2)>>,
     <<Fl(9000, -1), Fl(-9000, -1)>>, <<Fl(-9000, -1), Fl(9000, -1)>>,
     <<Zero, Fl(2000, 1)>>, <<Zero, Fl(-2000, 1)>>}

\* yoffset of handle_scroll: -1, 0.5, 5, 45, 100
ScrollOffsets == {Fl(-1000, -3), Fl(5000, -4), Fl(5000, -3), Fl(4500, -2), Fl(1000, -1)}

\* the angles the trigonometric tables cover
InDomain(a) == IsInt(a) /\ Deg(a) \in DOMAIN CosTable
                        /\ Abs(Deg(a)) <= 90 * MaxQuarter + 1

Call(op, direction, x, y, constrain_pitch, ret) ==
    [op |-> op, direction |-> direction, x |-> x, y |-> y,
     constrain_pitch |-> constrain_pitch, ret |-> ret]

Init ==
    \E position \in CtorPositions, yaw \in CtorYaws, pitch \in CtorPitches :
        /\ cam = Camera(position, yaw, pitch)
        /\ call = Call("Camera", "none", yaw, pitch, FALSE, "void")
        /\ pre = cam
        /\ ncalls = 0
        /\ cursor = NoCursorEvent
        /\ pc = "camera"
        /\ on_exit = FALSE
        /\ error_callback = FALSE
        /\ glfwTerminate_calls = 0
        /\ should_close = FALSE
        /\ window_data = "none"
        /\ frames = 0
        /\ events = 0

Called(c) ==
    /\ ncalls < MaxCalls
    /\ call' = c
    /\ pre' = cam
    /\ ncalls' = ncalls + 1
    /\ UNCHANGED <<cursor, mainvars>>

View ==
    /\ Called(Call("view", "none", Zero, Zero, FALSE, view(cam)))
    /\ cam' = cam

Fov ==
    /\ Called(Call("fov", "none", Zero, Zero, FALSE, fov(cam)))
    /\ cam' = cam

HandleKeyboard ==
    \E direction \in Directions, delta_time \in DeltaTimes :
        /\ Called(Call("handle_keyboard", direction, delta_time, Zero, FALSE, "void"))
        /\ cam' = handle_keyboard(cam, direction, delta_time)

HandleMouse ==
    \E offset \in MouseOffsets, constrain_pitch \in BOOLEAN :
        /\ InDomain(mouse_yaw(cam, offset[1]))
        /\ InDomain(mouse_pitch(cam, offset[2], constrain_pitch))
        /\ Called(Call("handle_mouse", "none", offset[1], offset[2], constrain_pitch, "void"))
        /\ cam' = handle_mouse(cam, offset[1], offset[2], constrain_pitch)

HandleScroll ==
    \E yoffset \in ScrollOffsets :
        /\ Called(Call("handle_scroll", "none", Zero, yoffset, FALSE, "void"))
        /\ cam' = handle_scroll(cam, yoffset)

Next == View \/ Fov \/ HandleKeyboard \/ HandleMouse \/ HandleScroll

Spec == Init /\ [][Next]_vars

---------------------------------------------------------------------------
(* main.cpp: the demo program *)

\* bounds of the model
MaxFrames == 2           \* iterations of the render loop
MaxEvents == 2           \* window events delivered in one run

\* keys held down when the loop polls W, S, A and D
KeySets == {{}, {"W"}, {"W", "S"}, {"A"}, {"S", "D"}}

\* delta_time of a frame: glfwGetTime() now minus at the last frame
FrameDeltas == {Fl(1600, -5)}

\* cursor positions (doubles) reported to mouse_callback: (410, 300),
\* (400, 290), (1300, 3000), (-499.6, 300), (-499.2, 300), (400.04, 300)
CursorPositions ==
    {<<Dbl(410, 0), Dbl(300, 0)>>, <<Dbl(400, 0), Dbl(290, 0)>>,
     <<Dbl(1300, 0), Dbl(3000, 0)>>, <<Dbl(-4996, -1), Dbl(300, 0)>>,
     <<Dbl(-4992, -1), Dbl(300, 0)>>, <<Dbl(40004, -2), Dbl(300, 0)>>}

\* (key, action) pairs reported to key_callback
KeyEvents ==
    {<<"GLFW_KEY_ESCAPE", "GLFW_PRESS">>, <<"GLFW_KEY_UP", "GLFW_PRESS">>,
     <<"GLFW_KEY_DOWN", "GLFW_PRESS">>, <<"GLFW_KEY_UP", "GLFW_RELEASE">>}

\* yoffset reported to scroll_callback
WheelOffsets == {One, Fl(-1000, -3)}

NoCamera == "none"

\* the places of main() that call into GLFW once error_handler is installed
GlfwCallSites ==
    {"glfwCreateWindow", "gladLoadGLLoader", "window_data", "loop", "render",
     "glfwPollEvents"}

\* the ways the process ends
Ended == pc \in {"return 1", "return -1", "return 0", "std::exit", "std::terminate"}

MainInit ==
    /\ cam = NoCamera
    /\ call = Call("none", "none", Zero, Zero, FALSE, "void")
    /\ pre = NoCamera
    /\ ncalls = 0
    /\ cursor = NoCursorEvent
    /\ pc = "glfwInit"
    /\ on_exit = FALSE
    /\ error_callback = FALSE
    /\ glfwTerminate_calls = 0
    /\ should_close = FALSE
    /\ window_data = "none"
    /\ frames = 0
    /\ events = 0

\* ~scope_exit(): func_() is the lambda that calls glfwTerminate()
scope_exit_destructor(alive, calls) == IF alive THEN calls + 1 ELSE calls

\* `return`: main's automatic objects are destroyed, on_exit among them
Return(status) ==
    /\ pc' = status
    /\ glfwTerminate_calls' = scope_exit_destructor(on_exit, glfwTerminate_calls)
    /\ on_exit' = FALSE
    /\ UNCHANGED <<camvars, error_callback, should_close, window_data, frames, events>>

\* An exception leaves a constructor and main has no handler: std::terminate
\* is called, and whether the stack is unwound first (and on_exit destroyed)
\* is implementation-defined.
Uncaught ==
    \E unwinds \in BOOLEAN :
        /\ pc' = "std::terminate"
        /\ glfwTerminate_calls' =
               IF unwinds THEN scope_exit_destructor(on_exit, glfwTerminate_calls)
                          ELSE glfwTerminate_calls
        /\ on_exit' = IF unwinds THEN FALSE ELSE on_exit
        /\ UNCHANGED <<camvars, error_callback, should_close, window_data, frames, events>>

GlfwInit ==
    /\ pc = "glfwInit"
    /\ \E ok \in BOOLEAN : pc' = IF ok THEN "on_exit" ELSE "return 1"
    /\ UNCHANGED <<camvars, on_exit, error_callback, glfwTerminate_calls,
                   should_close, window_data, frames, events>>

ScopeExit ==
    /\ pc = "on_exit"
    /\ on_exit' = TRUE
    /\ pc' = "glfwSetErrorCallback"
    /\ UNCHANGED <<camvars, error_callback, glfwTerminate_calls, should_close,
                   window_data, frames, events>>

SetErrorCallback ==
    /\ pc = "glfwSetErrorCallback"
    /\ error_callback' = TRUE
    /\ pc' = "glfwCreateWindow"
    /\ UNCHANGED <<camvars, on_exit, glfwTerminate_calls, should_close,
                   window_data, frames, events>>

\* error_handler: GLFW reports an error from inside one of its functions;
\* the handler calls glfwTerminate() and std::exit(), which destroys no
\* automatic object
ErrorHandler ==
    /\ error_callback
    /\ pc \in GlfwCallSites
    /\ glfwTerminate_calls' = glfwTerminate_calls + 1
    /\ pc' = "std::exit"
    /\ UNCHANGED <<camvars, on_exit, error_callback, should_close, window_data,
                   frames, events>>

CreateWindow ==
    /\ pc = "glfwCreateWindow"
    /\ pc' = "gladLoadGLLoader"
    /\ UNCHANGED <<camvars, on_exit, error_callback, glfwTerminate_calls,
                   should_close, window_data, frames, events>>

LoadGL ==
    /\ pc = "gladLoadGLLoader"
    /\ \E ok \in BOOLEAN :
           IF ok
           THEN /\ pc' = "window_data"
                /\ UNCHANGED <<camvars, on_exit, error_callback, glfwTerminate_calls,
                               should_close, window_data, frames, events>>
           ELSE Return("return -1")

WindowData ==
    /\ pc = "window_data"
    /\ window_data' = [width |-> Fl(8000, -1), height |-> Fl(6000, -1),
                       blend_value |-> Fl(2000, -4),
                       mouse |-> [x |-> Fl(4000, -1), y |-> Fl(3000, -1)]]
    /\ cam' = Camera(vec3(Zero, Zero, Fl(3000, -3)), YAW, PITCH)
    /\ call' = Call("Camera", "none", YAW, PITCH, FALSE, "void")
    /\ pre' = cam'
    /\ pc' = "shader"
    /\ UNCHANGED <<ncalls, cursor, on_exit, error_callback, glfwTerminate_calls,
                   should_close, frames, events>>

\* shader::shader and texture::texture either complete or throw
Construct(here, next) ==
    /\ pc = here
    /\ \E throws \in BOOLEAN :
           IF throws
           THEN Uncaught
           ELSE /\ pc' = next
                /\ UNCHANGED <<camvars, on_exit, error_callback, glfwTerminate_calls,
                               should_close, window_data, frames, events>>

ShaderCtor == Construct("shader", "texture wood_panel")

WoodTextureCtor == Construct("texture wood_panel", "texture face")

FaceTextureCtor == Construct("texture face", "loop")

\* the four glfwGetKey tests of one iteration, in their order
poll_keys(c, keys, delta_time) ==
    LET w == IF "W" \in keys THEN handle_keyboard(c, "forward", delta_time) ELSE c
        z == IF "S" \in keys THEN handle_keyboard(w, "backward", delta_time) ELSE w
        a == IF "A" \in keys THEN handle_keyboard(z, "left", delta_time) ELSE z
    IN  IF "D" \in keys THEN handle_keyboard(a, "right", delta_time) ELSE a

LoopExit ==
    /\ pc = "loop"
    /\ should_close
    /\ Return("return 0")

LoopKeys ==
    /\ pc = "loop"
    /\ ~should_close
    /\ frames < MaxFrames
    /\ \E keys \in KeySets, delta_time \in FrameDeltas :
           /\ cam' = poll_keys(cam, keys, delta_time)
           /\ ncalls' = ncalls + Cardinality(keys)
    /\ pc' = "render"
    /\ UNCHANGED <<call, pre, cursor, on_exit, error_callback, glfwTerminate_calls,
                   should_close, window_data, frames, events>>

\* the rest of the iteration up to glfwPollEvents: view() and fov() are read
Render ==
    /\ pc = "render"
    /\ call' = Call("fov", "none", Zero, Zero, FALSE, fov(cam))
    /\ pre' = cam
    /\ ncalls' = ncalls + 2
    /\ pc' = "glfwPollEvents"
    /\ UNCHANGED <<cam, cursor, on_exit, error_callback, glfwTerminate_calls,
                   should_close, window_data, frames, events>>

Delivered ==
    /\ pc = "glfwPollEvents"
    /\ events < MaxEvents
    /\ events' = events + 1
    /\ UNCHANGED <<pc, on_exit, error_callback, glfwTerminate_calls, frames>>

key_callback_blend(blend_value, key, action) ==
    IF action # "GLFW_PRESS" THEN blend_value
    ELSE CASE key = "GLFW_KEY_UP" -> clamp(fadd(blend_value, Fl(1000, -4)), Zero, One)
           [] key = "GLFW_KEY_DOWN" -> clamp(fsub(blend_value, Fl(1000, -4)), Zero, One)
           [] OTHER -> blend_value

KeyCallback ==
    \E e \in KeyEvents :
        /\ Delivered
        /\ should_close' = (should_close \/ (e[2] = "GLFW_PRESS" /\ e[1] = "GLFW_KEY_ESCAPE"))
        /\ window_data' = [window_data EXCEPT
                               !.blend_value = key_callback_blend(@, e[1], e[2])]
        /\ UNCHANGED camvars

\* mouse_callback_offset with the subtraction reversed
mouse_callback_offset_reversed(pos, stored) == fsub(stored, pos)

\* xoffset = xpos - mouse.x (and yoffset likewise)
mouse_callback_offset(pos, stored) == fsub(pos, stored)

MouseCallback ==
    \E p \in CursorPositions :
        LET xpos    == to_float(p[1])
            ypos    == to_float(p[2])
            xoffset == mouse_callback_offset(xpos, window_data.mouse.x)
            yoffset == mouse_callback_offset(ypos, window_data.mouse.y)
        IN  /\ Delivered
            /\ InDomain(mouse_yaw(cam, xoffset))
            /\ InDomain(mouse_pitch(cam, yoffset, TRUE))
            /\ cursor' = [x |-> p[1], y |-> p[2]]
            /\ window_data' = [window_data EXCEPT !.mouse = [x |-> xpos, y |-> ypos]]
            /\ cam' = handle_mouse(cam, xoffset, yoffset, TRUE)
            /\ call' = Call("handle_mouse", "none", xoffset, yoffset, TRUE, "void")
            /\ pre' = cam
            /\ ncalls' = ncalls + 1
            /\ UNCHANGED should_close

ScrollCallback ==
    \E yoffset \in WheelOffsets :
        /\ Delivered
        /\ cam' = handle_scroll(cam, yoffset)
        /\ call' = Call("handle_scroll", "none", Zero, yoffset, FALSE, "void")
        /\ pre' = cam
        /\ ncalls' = ncalls + 1
        /\ UNCHANGED <<cursor, should_close, window_data>>

\* the user closes the window: GLFW sets the close flag itself
CloseRequest ==
    /\ Delivered
    /\ should_close' = TRUE
    /\ UNCHANGED <<camvars, window_data>>

PollEventsReturns ==
    /\ pc = "glfwPollEvents"
    /\ pc' = "loop"
    /\ frames' = frames + 1
    /\ UNCHANGED <<camvars, on_exit, error_callback, glfwTerminate_calls,
                   should_close, window_data, events>>

MainNext ==
    \/ GlfwInit \/ ScopeExit \/ SetErrorCallback \/ ErrorHandler
    \/ CreateWindow \/ LoadGL \/ WindowData
    \/ ShaderCtor \/ WoodTextureCtor \/ FaceTextureCtor
    \/ LoopExit \/ LoopKeys \/ Render
    \/ KeyCallback \/ MouseCallback \/ ScrollCallback \/ CloseRequest
    \/ PollEventsReturns

MainSpec == MainInit /\ [][MainNext]_vars

---------------------------------------------------------------------------
(* Properties of the camera *)

\* "within floating-point tolerance": 10^-2, twenty units in the last place
\* of a four-digit number near 1
Tol == Fl(1000, -5)

Near(x, y, tol) == Le(fabs(fsub(x, y)), tol)

VNear(a, b, tol) == Near(a.x, b.x, tol) /\ Near(a.y, b.y, tol) /\ Near(a.z, b.z, tol)

IsUnit(v) == Near(dot(v, v), One, Tol)

Orthogonal(a, b) == Near(dot(a, b), Zero, Tol)

Deg89 == Fl(8900, -2)
Deg90 == Fl(9000, -2)

\* C1: after a handle_mouse call that constrains pitch, pitch lies in
\* [-89, 89], whatever the pitch before the call (from the constructor or
\* from earlier unconstrained calls) and whatever the offsets.
C1_PitchConstrained ==
    (call.op = "handle_mouse" /\ call.constrain_pitch)
        => (Le(fneg(Deg89), cam.pitch) /\ Le(cam.pitch, Deg89))

\* C1 witness: a constraining call made on a camera whose pitch was above 89
\* degrees, which brought it back to 89.
C1_Witness ==
    /\ call.op = "handle_mouse"
    /\ call.constrain_pitch
    /\ Lt(Deg89, pre.pitch)
    /\ cam.pitch = Deg89

\* C2 (as claimed): in every reachable state 1 <= field_of_view <= 45.
C2_FovInRange == Le(One, cam.fov) /\ Le(cam.fov, Fl(4500, -2))

\* C3: after construction and after every call, forward and right are of
\* unit length and orthogonal, within tolerance, for every yaw and pitch;
\* this includes pitch = 90 + 180 k.
C3_UnitOrthogonal ==
    /\ IsUnit(cam.forward)
    /\ IsUnit(cam.right)
    /\ Orthogonal(cam.forward, cam.right)

\* C3 witness: an unconstrained handle_mouse call has put pitch at 90
\* degrees, where forward is (to four digits) world-up.
C3_Witness ==
    /\ call.op = "handle_mouse"
    /\ ~call.constrain_pitch
    /\ cam.pitch = Deg90
    /\ cam.forward.y = One
    /\ IsUnit(cam.right)

\* the larger of two floats
fmax(a, b) == IF Lt(a, b) THEN b ELSE a

\* relative rounding tolerance of a sum followed by the opposite sum: four
\* half-units in the last place
RelTol == Fl(2000, -6)

\* this step is handle_keyboard(b, dt) and the step before it was
\* handle_keyboard(a, dt), with the same dt >= 0
KeyPair(a, b) ==
    /\ call.op = "handle_keyboard" /\ call.direction = a
    /\ call'.op = "handle_keyboard" /\ call'.direction = b
    /\ call'.x = call.x
    /\ Le(Zero, call.x)

\* |q - p| is within the rounding error of adding and subtracting d
BackWithinRounding(q, p, d) ==
    Le(fabs(fsub(q, p)), fmul(RelTol, fmax(fabs(p), fabs(d))))

\* C4 (as claimed): handle_keyboard(forward, dt) followed by
\* handle_keyboard(backward, dt), or left followed by right, returns position
\* to its value before the pair (within the tolerance Tol), for any dt >= 0.
C4_RoundTripReturns ==
    [][(KeyPair("forward", "backward") \/ KeyPair("left", "right"))
          => VNear(cam'.position, pre.position, Tol)]_vars

\* C4 (amended): the pair returns every coordinate of position to its value
\* before the pair up to floating-point rounding: the difference is at most
\* a few units in the last place of the larger of the coordinate and the
\* displacement applied to it, and it is zero for dt = 0.
C4_RoundTripWithinRounding ==
    [][\A axis \in {"forward", "right"} :
          KeyPair(IF axis = "forward" THEN "forward" ELSE "left",
                  IF axis = "forward" THEN "backward" ELSE "right")
          => LET d == vscale(pre[axis], fmul(pre.movement_speed, call.x))
                 p == pre.position
                 q == cam'.position
             IN  /\ BackWithinRounding(q.x, p.x, d.x)
                 /\ BackWithinRounding(q.y, p.y, d.y)
                 /\ BackWithinRounding(q.z, p.z, d.z)
                 /\ (call.x = Zero => q = p)]_vars

\* C4 witness: the second call of a behaviour was handle_keyboard(backward,
\* dt) with dt > 0; it moved the camera, and moved it back to where the
\* constructor had put it.
C4_Witness ==
    /\ ncalls = 2
    /\ call.op = "handle_keyboard" /\ call.direction = "backward"
    /\ Lt(Zero, call.x)
    /\ cam.position # pre.position
    /\ cam.position \in CtorPositions

\* C5: handle_scroll(y) lowers field_of_view by y clamped to [1, 45]: by y
\* when 1 <= y <= 45, by 1 when y < 1 (also for y <= 0), by 45 when y > 45;
\* handle_scroll(5) from 45 gives 40.
C5_ScrollLowersByClampedOffset ==
    call.op = "handle_scroll" =>
        LET y    == call.y
            drop == fsub(pre.fov, cam.fov)
        IN  /\ (Le(One, y) /\ Le(y, Fl(4500, -2))) => cam.fov = fsub(pre.fov, y)
            /\ Lt(y, One) => cam.fov = fsub(pre.fov, One)
            /\ Lt(Fl(4500, -2), y) => cam.fov = fsub(pre.fov, Fl(4500, -2))
            /\ Le(One, drop) /\ Le(drop, Fl(4500, -2))
            /\ (y = Fl(5000, -3) /\ pre.fov = Fl(4500, -2)) => cam.fov = Fl(4000, -2)

\* C5 witness: handle_scroll(5) was called at field_of_view = 45 and left 40.
C5_Witness ==
    /\ call.op = "handle_scroll"
    /\ call.y = Fl(5000, -3)
    /\ pre.fov = Fl(4500, -2)
    /\ cam.fov = Fl(4000, -2)

KeySign(direction) ==
    IF direction \in {"forward", "right"} THEN One ELSE fneg(One)

KeyAxis(c, direction) ==
    IF direction \in {"forward", "backward"} THEN c.forward ELSE c.right

Opposite(direction) ==
    CASE direction = "forward" -> "backward" [] direction = "backward" -> "forward"
      [] direction = "left" -> "right"       [] direction = "right" -> "left"

\* C6: handle_keyboard(direction, dt) adds to position the forward vector
\* (forward +, backward -) or the right vector (right +, left -) held at the
\* time of the call, times movement_speed * dt; dt = 0 leaves position
\* unchanged and -dt moves as the opposite direction does with dt.
C6_KeyboardDisplacement ==
    call.op = "handle_keyboard" =>
        LET dt   == call.x
            d    == call.direction
            step(sign, t) == fmul(sign, fmul(pre.movement_speed, t))
        IN  /\ cam.position =
                   vadd(pre.position, vscale(KeyAxis(pre, d), step(KeySign(d), dt)))
            /\ dt = Zero => cam.position = pre.position
            /\ cam.position =
                   vadd(pre.position,
                        vscale(KeyAxis(pre, Opposite(d)),
                               step(KeySign(Opposite(d)), fneg(dt))))

\* C6 witness: handle_keyboard(forward, dt) with dt < 0 on a camera looking
\* down -z has raised z: it moved backward.
C6_Witness ==
    /\ call.op = "handle_keyboard" /\ call.direction = "forward"
    /\ Lt(call.x, Zero)
    /\ Lt(pre.forward.z, Zero)
    /\ Lt(pre.position.z, cam.position.z)

\* C7: handle_mouse(x, y, c) sets yaw to yaw + mouse_sensitivity * x, with no
\* clamp and no wrap, and pitch to pitch - mouse_sensitivity * y, clamped to
\* [-89, 89] exactly when c; handle_mouse(10, 0) at sensitivity 0.1 raises
\* yaw by 1 and leaves a pitch inside [-89, 89] unchanged.
C7_MouseUpdatesAngles ==
    call.op = "handle_mouse" =>
        LET raw == fsub(pre.pitch, fmul(pre.mouse_sensitivity, call.y))
        IN  /\ cam.yaw = fadd(pre.yaw, fmul(pre.mouse_sensitivity, call.x))
            /\ ~call.constrain_pitch => cam.pitch = raw
            /\ call.constrain_pitch =>
                   cam.pitch = (IF Lt(raw, fneg(Deg89)) THEN fneg(Deg89)
                                ELSE IF Lt(Deg89, raw) THEN Deg89 ELSE raw)
            /\ (call.x = Fl(1000, -2) /\ call.y = Zero
                    /\ pre.mouse_sensitivity = Fl(1000, -4)) =>
                   /\ cam.yaw = fadd(pre.yaw, One)
                   /\ (Le(fneg(Deg89), pre.pitch) /\ Le(pre.pitch, Deg89))
                          => cam.pitch = pre.pitch

\* C7 witness: handle_mouse(10, 0) on the default orientation: yaw went from
\* -90 to -89, pitch stayed 0.
C7_Witness ==
    /\ call.op = "handle_mouse"
    /\ call.x = Fl(1000, -2) /\ call.y = Zero
    /\ pre.yaw = YAW /\ cam.yaw = Fl(-8900, -2)
    /\ pre.pitch = PITCH /\ cam.pitch = PITCH

\* the orientation formula of the camera
OrientationForward(yaw, pitch) ==
    normalize(vec3(fmul(cos_radians(yaw), cos_radians(pitch)),
                   sin_radians(pitch),
                   fmul(sin_radians(yaw), cos_radians(pitch))))

\* C8: in every state (after construction and after every call) forward is
\* the orientation formula applied to the current yaw and pitch and right is
\* normalize(cross(forward, world_up)); at yaw = -90, pitch = 0 these are
\* (0, 0, -1) and (1, 0, 0) within tolerance.
C8_VectorsFresh ==
    /\ cam.forward = OrientationForward(cam.yaw, cam.pitch)
    /\ cam.right = normalize(cross(cam.forward, cam.world_up))
    /\ (cam.yaw = YAW /\ cam.pitch = PITCH) =>
           /\ VNear(cam.forward, vec3(Zero, Zero, fneg(One)), Tol)
           /\ VNear(cam.right, vec3(One, Zero, Zero), Tol)

\* C8 witness: a handle_mouse call has turned the camera, and forward is no
\* longer what it was before the call.
C8_Witness ==
    /\ call.op = "handle_mouse"
    /\ cam.yaw # pre.yaw
    /\ cam.forward # pre.forward
    /\ cam.right # pre.right

\* C9: handle_keyboard changes only position, handle_mouse only yaw, pitch,
\* forward and right, handle_scroll only field_of_view, view() and fov()
\* nothing; movement_speed, mouse_sensitivity and up keep their construction
\* values in every state.
C9_Frame ==
    /\ call.op = "handle_keyboard" => [cam EXCEPT !.position = pre.position] = pre
    /\ call.op = "handle_mouse" =>
           [cam EXCEPT !.yaw = pre.yaw, !.pitch = pre.pitch,
                       !.forward = pre.forward, !.right = pre.right] = pre
    /\ call.op = "handle_scroll" => [cam EXCEPT !.fov = pre.fov] = pre
    /\ call.op \in {"view", "fov"} => cam = pre
    /\ cam.movement_speed = SPEED
    /\ cam.mouse_sensitivity = SENSITIVITY
    /\ cam.up = vec3(Zero, One, Zero)

\* C9 witness: a handle_mouse call that turned a camera whose field of view
\* an earlier handle_scroll had changed; position and field of view are as
\* before the call.
C9_Witness ==
    /\ call.op = "handle_mouse"
    /\ cam.yaw # pre.yaw
    /\ pre.fov # FOV
    /\ cam.fov = pre.fov
    /\ cam.position = pre.position

---------------------------------------------------------------------------
(* Properties of the demo program *)

\* C10 (as claimed): on every path by which main ends after glfwInit has
\* succeeded, glfwTerminate has been called exactly once.
C10_TerminateExactlyOnce ==
    (Ended /\ pc # "return 1") => glfwTerminate_calls = 1

\* this step is one run of mouse_callback
MouseEvent ==
    /\ pc = "glfwPollEvents" /\ pc' = pc
    /\ ncalls' = ncalls + 1
    /\ call'.op = "handle_mouse"

\* the yaw the closed form gives for a stored cursor x: the initial yaw plus
\* mouse_sensitivity * (x - 400)
YawFromCursor(x) == fadd(YAW, fmul(SENSITIVITY, fsub(x, Fl(4000, -1))))

\* one unit in the last place of a four-digit angle of 100 to 999 degrees
YawUlp == Fl(1000, -4)

\* mouse_callback hands handle_mouse the differences between the event's
\* position (as a float) and the stored position, and stores the event's
\* position (as a float)
DeltasPassedAndStored ==
    /\ call'.x = fsub(to_float(cursor'.x), window_data.mouse.x)
    /\ call'.y = fsub(to_float(cursor'.y), window_data.mouse.y)
    /\ call'.constrain_pitch
    /\ window_data'.mouse = [x |-> to_float(cursor'.x), y |-> to_float(cursor'.y)]

\* C11 (as claimed): after every cursor event mouse_callback has passed the
\* deltas, the stored position is the event's position, and yaw equals the
\* initial yaw plus mouse_sensitivity * (last event x - 400) (within the
\* tolerance Tol), whatever the positions of the earlier events.
C11_YawFromLastPosition ==
    [][MouseEvent =>
          /\ DeltasPassedAndStored
          /\ Near(cam'.yaw, YawFromCursor(window_data'.mouse.x), Tol)]_vars

\* C11 (amended): after every cursor event mouse_callback has passed the
\* deltas of the float-converted positions and stored the float-converted
\* position; yaw has grown by mouse_sensitivity * delta, rounded; it equals
\* the closed form exactly after the first event, and after later events
\* only up to the rounding accumulated so far, at most one unit in the last
\* place of the angle per event.
C11_YawSumOfRoundedDeltas ==
    [][MouseEvent =>
          /\ DeltasPassedAndStored
          /\ cam'.yaw = fadd(cam.yaw, fmul(call'.x, SENSITIVITY))
          /\ (cam.yaw = YAW /\ window_data.mouse.x = Fl(4000, -1))
                 => cam'.yaw = YawFromCursor(window_data'.mouse.x)
          /\ Le(fabs(fsub(cam'.yaw, YawFromCursor(window_data'.mouse.x))),
                fmul(Round(events', 0), YawUlp))]_vars

\* C11 witness: the cursor went away from (400, 300) and a second event
\* brought its x back to 400: the stored x is 400 and yaw, turned by the
\* first event, is back at its initial value.
C11_Witness ==
    /\ call.op = "handle_mouse"
    /\ pre.yaw # YAW
    /\ cam.yaw = YAW
    /\ cursor.x = Dbl(400, 0)
    /\ window_data.mouse.x = Fl(4000, -1)

==========================================================================
